---------------------------- MODULE Spec2Model ----------------------------
(***************************************************************************)
(* A model of the NV-Stats Cinnamon applet (applet.js, version 0.5.1):     *)
(* the nvidia-smi output parsers of NvidiaSMI, the temperature colour      *)
(* bands of MyApplet, its update and error handling and its timer.          *)
(*                                                                         *)
(* A JavaScript string is a sequence of one-character strings.  The JS     *)
(* value null is Null, NaN is NaN; a number that may also be null or NaN   *)
(* is wrapped as Num(n) so that the two can be compared.                    *)
(***************************************************************************)
EXTENDS Integers, Sequences, FiniteSets, TLC

VARIABLES
    fanCase,      \* how the fan query's output was produced
    fanStdout,    \* the fan query's standard output
    fanResult,    \* what _parseFanSpeed returned for it, Pending before the call
    dmonCase,     \* how the dmon report was produced
    dmonStdout,   \* the dmon command's standard output
    dmonResult,   \* what _parseDmonOutput returned for it, Pending before the call
    applet,       \* the MyApplet instance: its properties ("this")
    mainloop,     \* the host's Mainloop: the live timeout sources
    last,         \* the handler that ran last and what its update did
    formatCase,   \* a layout asked of the LayoutManager and a reading to format
    formatResult, \* what format returned for it, Pending before the call
    statsCase,    \* the outcomes of the two commands at one call of getStats
    statsResult   \* what getStats returned for them, Pending before the call

fanVars == <<fanCase, fanStdout, fanResult>>
dmonVars == <<dmonCase, dmonStdout, dmonResult>>
appletVars == <<applet, mainloop, last>>
formatVars == <<formatCase, formatResult>>
statsVars == <<statsCase, statsResult>>
vars == <<fanCase, fanStdout, fanResult, dmonCase, dmonStdout, dmonResult, applet,
          mainloop, last, formatCase, formatResult, statsCase, statsResult>>

(***************************************************************************)
(* Bounds of the model.                                                    *)
(***************************************************************************)
\* fan values rendered by the fan query range over -MaxNegFan..MaxFanValue
MaxFanValue == 150
MaxNegFan == 5
\* every string over RawAlphabet up to this length is a fan query output
MaxRawLen == 3
\* a dmon report has up to MaxHeaders header lines, a first data row of up to
\* MaxFields fields and up to MaxExtraRows rows of further GPUs
MaxHeaders == 2
MaxFields == 7
MaxExtraRows == 1
\* Mainloop hands out the source ids 1..MaxSources
MaxSources == 2
\* a failed update is taken while _consecutiveErrors is below this
MaxConsecutiveErrors == 2
\* SpecTimer: failed updates in a row, and timers started
MaxErrorRun == 11
MaxTimerStarts == 4

(***************************************************************************)
(* JavaScript values and string primitives.                                *)
(***************************************************************************)
Null == [type |-> "null"]
NaN == [type |-> "NaN"]
Num(n) == [type |-> "number", value |-> n]

\* the characters String.prototype.trim and the regex class \s strip
WhiteSpace == {" ", "\t", "\n", "\r"}

DigitChars == <<"0", "1", "2", "3", "4", "5", "6", "7", "8", "9">>
Digits == {DigitChars[i] : i \in 1..10}
DigitValue(c) == (CHOOSE i \in 1..10 : DigitChars[i] = c) - 1

\* String(n) for a natural number: its decimal digits
RECURSIVE NatToStr(_)
NatToStr(n) ==
    IF n < 10 THEN <<DigitChars[n + 1]>>
    ELSE NatToStr(n \div 10) \o <<DigitChars[(n % 10) + 1]>>

\* the decimal text of an integer, as nvidia-smi prints it
IntToStr(n) == IF n < 0 THEN <<"-">> \o NatToStr(0 - n) ELSE NatToStr(n)

RECURSIVE TrimStart(_)
TrimStart(s) ==
    IF s = <<>> THEN s
    ELSE IF Head(s) \in WhiteSpace THEN TrimStart(Tail(s)) ELSE s

RECURSIVE TrimEnd(_)
TrimEnd(s) ==
    IF s = <<>> THEN s
    ELSE IF s[Len(s)] \in WhiteSpace THEN TrimEnd(SubSeq(s, 1, Len(s) - 1)) ELSE s

\* String.prototype.trim
Trim(s) == TrimEnd(TrimStart(s))

\* the k-th smallest element of a set of integers
KthOf(S, k) == CHOOSE e \in S : Cardinality({x \in S : x < e}) = k - 1

\* String.prototype.split(c) for a one-character separator: "".split(c) is [""].
\* A piece ends before each occurrence of c and at the end of s.
Split(s, c) ==
    LET ends == {i \in 1..Len(s) : s[i] = c} \cup {Len(s) + 1}
        from(k) == IF k = 1 THEN 1 ELSE KthOf(ends, k - 1) + 1
    IN  [k \in 1..Cardinality(ends) |-> SubSeq(s, from(k), KthOf(ends, k) - 1)]

\* String.prototype.split(/\s+/): a maximal run of white space is one separator.
\* A piece ends before the first character of a run (or at the end of s) and
\* the next one starts after the run's last character.
SplitWhiteSpace(s) ==
    LET ws(i) == i >= 1 /\ i <= Len(s) /\ s[i] \in WhiteSpace
        starts == {i \in 1..Len(s) : ws(i) /\ ~ws(i - 1)} \cup {Len(s) + 1}
        stops == {i \in 1..Len(s) : ws(i) /\ ~ws(i + 1)} \cup {0}
    IN  [k \in 1..Cardinality(starts) |->
            SubSeq(s, KthOf(stops, k) + 1, KthOf(starts, k) - 1)]

\* String.prototype.startsWith(c) for a one-character prefix
StartsWith(s, c) == Len(s) >= 1 /\ s[1] = c

\* the longest prefix of s made of decimal digits
RECURSIVE DigitPrefix(_)
DigitPrefix(s) ==
    IF s = <<>> \/ Head(s) \notin Digits THEN <<>>
    ELSE <<Head(s)>> \o DigitPrefix(Tail(s))

\* the value of a non-empty digit string, most significant digit first
RECURSIVE DigitsValue(_)
DigitsValue(ds) ==
    IF ds = <<>> THEN 0
    ELSE 10 * DigitsValue(SubSeq(ds, 1, Len(ds) - 1)) + DigitValue(ds[Len(ds)])

\* the global parseInt(string) with no radix: leading white space is skipped,
\* one sign is read, then the longest run of decimal digits; what follows the
\* digits is ignored, and no digit at all gives NaN.  (A "0x" prefix selects
\* radix 16; the outputs modelled here contain no 'x'.)
ParseInt(s) ==
    LET t == TrimStart(s)
        neg == StartsWith(t, "-")
        u == IF StartsWith(t, "-") \/ StartsWith(t, "+") THEN Tail(t) ELSE t
        ds == DigitPrefix(u)
    IN  IF ds = <<>> THEN NaN
        ELSE Num(IF neg THEN 0 - DigitsValue(ds) ELSE DigitsValue(ds))

IsNaN(x) == x = NaN

\* String.prototype.match(/(\d+)/): null (here <<>>) when s holds no digit,
\* else <<the match, group 1>>, the first maximal run of digits of s
RECURSIVE MatchDigits(_)
MatchDigits(s) ==
    IF s = <<>> THEN <<>>
    ELSE IF Head(s) \in Digits THEN <<DigitPrefix(s), DigitPrefix(s)>>
    ELSE MatchDigits(Tail(s))

(***************************************************************************)
(* NvidiaSMI._parseFanSpeed                                                *)
(***************************************************************************)
\* _parseFanSpeed with the upper limit tested as >= 100
_parseFanSpeed_below100(stdout) ==
    IF stdout = <<>> \/ Trim(stdout) = <<>> THEN Null
    ELSE LET trimmed == Trim(stdout)
             match == MatchDigits(trimmed)
         IN  IF match = <<>> THEN Null
             ELSE LET fanSpeed == ParseInt(match[2])
                  IN  IF IsNaN(fanSpeed) \/ fanSpeed.value < 0 \/ fanSpeed.value >= 100
                      THEN Null
                      ELSE fanSpeed

\* _parseFanSpeed with the test of the upper limit left out
_parseFanSpeed_noLimit(stdout) ==
    IF stdout = <<>> \/ Trim(stdout) = <<>> THEN Null
    ELSE LET trimmed == Trim(stdout)
             match == MatchDigits(trimmed)
         IN  IF match = <<>> THEN Null
             ELSE LET fanSpeed == ParseInt(match[2])
                  IN  IF IsNaN(fanSpeed) \/ fanSpeed.value < 0 THEN Null ELSE fanSpeed

_parseFanSpeed(stdout) ==
    IF stdout = <<>> \/ Trim(stdout) = <<>> THEN Null
    ELSE LET trimmed == Trim(stdout)
             match == MatchDigits(trimmed)
         IN  IF match = <<>> THEN Null
             ELSE LET fanSpeed == ParseInt(match[2])
                  IN  IF IsNaN(fanSpeed) \/ fanSpeed.value < 0 \/ fanSpeed.value > 100
                      THEN Null
                      ELSE fanSpeed

(***************************************************************************)
(* The outputs of the fan query the parser is run on: the decimal text of  *)
(* an integer, bare or surrounded by blanks and a newline, and every short *)
(* string over RawAlphabet.                                                *)
(***************************************************************************)
Pending == [type |-> "pending"]
Idle == [kind |-> "idle"]

PadsLeft == {<<>>, <<" ">>, <<" ", " ">>}
PadsRight == {<<>>, <<"\n">>, <<" ">>, <<" ", " ", "\n">>}
RawAlphabet == {"0", "1", "5", "-", ".", "a", " ", "\n"}
RawStrings == UNION {[1..k -> RawAlphabet] : k \in 0..MaxRawLen}

FanCases ==
    [kind : {"int"}, n : (0 - MaxNegFan)..MaxFanValue, padL : PadsLeft, padR : PadsRight]
    \cup [kind : {"raw"}, text : RawStrings]

RenderFan(c) ==
    IF c.kind = "int" THEN c.padL \o IntToStr(c.n) \o c.padR ELSE c.text

InitFan ==
    /\ fanCase \in FanCases
    /\ fanStdout = RenderFan(fanCase)
    /\ fanResult = Pending
    /\ dmonCase = Idle
    /\ dmonStdout = <<>>
    /\ dmonResult = Pending
    /\ applet = Idle
    /\ mainloop = Idle
    /\ last = Idle
    /\ formatCase = Idle /\ formatResult = Pending
    /\ statsCase = Idle /\ statsResult = Pending

\* the call this._parseFanSpeed(output) of _executeFanQuery
ParseFan ==
    /\ fanResult = Pending
    /\ fanResult' = _parseFanSpeed(fanStdout)
    /\ UNCHANGED <<fanCase, fanStdout>>
    /\ UNCHANGED <<dmonVars, appletVars, formatVars, statsVars>>

NextFan == ParseFan

SpecFan == InitFan /\ [][NextFan]_vars

(***************************************************************************)
(* NvidiaSMI._parseDmonOutput                                              *)
(***************************************************************************)
IsDataLine(line) == ~StartsWith(line, "#") /\ Trim(line) # <<>>
NonEmpty(v) == v # <<>>

\* _parseDmonOutput reading the last data row instead of the first
_parseDmonOutput_lastRow(stdout) ==
    IF stdout = <<>> \/ Trim(stdout) = <<>> THEN Null
    ELSE LET lines == SelectSeq(Split(stdout, "\n"), IsDataLine)
         IN  IF Len(lines) = 0 THEN Null
             ELSE LET dataLine == lines[Len(lines)]
                      values == SelectSeq(SplitWhiteSpace(Trim(dataLine)), NonEmpty)
                  IN  IF Len(values) < 6 THEN Null
                      ELSE LET gpu == ParseInt(values[5])
                               mem == ParseInt(values[6])
                               temp == ParseInt(values[3])
                           IN  IF IsNaN(gpu) \/ IsNaN(mem) \/ IsNaN(temp) THEN Null
                               ELSE [gpu |-> gpu.value, mem |-> mem.value,
                                     temp |-> temp.value]

_parseDmonOutput(stdout) ==
    IF stdout = <<>> \/ Trim(stdout) = <<>> THEN Null
    ELSE LET lines == SelectSeq(Split(stdout, "\n"), IsDataLine)
         IN  IF Len(lines) = 0 THEN Null
             ELSE LET dataLine == lines[1]
                      values == SelectSeq(SplitWhiteSpace(Trim(dataLine)), NonEmpty)
                  IN  IF Len(values) < 6 THEN Null
                      ELSE LET gpu == ParseInt(values[5])
                               mem == ParseInt(values[6])
                               temp == ParseInt(values[3])
                           IN  IF IsNaN(gpu) \/ IsNaN(mem) \/ IsNaN(temp) THEN Null
                               ELSE [gpu |-> gpu.value, mem |-> mem.value,
                                     temp |-> temp.value]

(***************************************************************************)
(* The dmon reports the parser is run on, after the format documented at   *)
(* _parseDmonOutput: header lines, then one row per GPU.  The fields at    *)
(* index 2, 4 and 5 of the first row are each an integer or a text; white  *)
(* space is added around the output or around its lines.                   *)
(***************************************************************************)
IntField(n) == [kind |-> "int", n |-> n]
TxtField(t) == [kind |-> "txt", text |-> t]
RenderField(f) == IF f.kind = "int" THEN IntToStr(f.n) ELSE f.text

\* a field that is no integer: the "-" nvidia-smi prints for a missing reading,
\* and a number followed by its unit
FieldTexts == {TxtField(<<"-">>), TxtField(<<"4", "C">>)}
TempChoices == {IntField(45), IntField(100)} \cup FieldTexts
GpuChoices == {IntField(0), IntField(13), TxtField(<<"-">>)}
MemChoices == {IntField(0 - 5), IntField(6), TxtField(<<"4", "C">>)}

\* the first data row: gpu idx, pwr, gtemp, mtemp, sm, mem, enc, dec, cut to nf fields
RowFields(t, g, m, nf) ==
    SubSeq(<<IntField(0), IntField(117), t, TxtField(<<"-">>), g, m, IntField(0),
             IntField(0)>>, 1, nf)

\* the rows of further GPUs: a full row and a garbage row
OtherRows ==
    {<<IntField(1), IntField(99), IntField(99), TxtField(<<"-">>), IntField(99),
       IntField(99)>>,
     <<TxtField(<<"a">>)>>}

HeaderLine == <<"#", " ", "g", " ", "p", " ", "t", " ", "m", " ", "s", " ", "m">>

\* where white space is added: nowhere, before or after the whole output, before
\* or after every header line, after every data row
Decorations == {"none", "lead", "trail", "trailnl", "hpre", "hpost", "rpost"}
\* the data rows as nvidia-smi prints them (right-aligned columns) or tight
RowStyles == {"tight", "padded"}

DmonCases ==
    [kind : {"norows"}, headers : 0..MaxHeaders, deco : Decorations]
    \cup [kind : {"rows"}, headers : 0..MaxHeaders, deco : Decorations,
          style : RowStyles, t : TempChoices, g : GpuChoices, m : MemChoices,
          nf : 4..MaxFields,
          extra : UNION {[1..k -> OtherRows] : k \in 0..MaxExtraRows}]

Blank == <<" ", " ">>

RECURSIVE JoinWith(_, _)
JoinWith(ss, sep) ==
    IF ss = <<>> THEN <<>>
    ELSE IF Len(ss) = 1 THEN ss[1]
    ELSE ss[1] \o sep \o JoinWith(Tail(ss), sep)

RenderRow(fields, style, deco) ==
    (IF style = "padded" THEN Blank ELSE <<>>)
    \o JoinWith([i \in 1..Len(fields) |-> RenderField(fields[i])],
                IF style = "padded" THEN Blank \o <<" ">> ELSE <<" ">>)
    \o (IF deco = "rpost" THEN Blank ELSE <<>>)

RenderHeader(deco) ==
    (IF deco = "hpre" THEN Blank ELSE <<>>) \o HeaderLine
    \o (IF deco = "hpost" THEN Blank ELSE <<>>)

DmonRows(c) ==
    IF c.kind = "norows" THEN <<>>
    ELSE <<RowFields(c.t, c.g, c.m, c.nf)>> \o c.extra

RenderDmon(c) ==
    LET rows == DmonRows(c)
        style == IF c.kind = "rows" THEN c.style ELSE "tight"
        lines == [i \in 1..c.headers |-> RenderHeader(c.deco)]
                 \o [i \in 1..Len(rows) |-> RenderRow(rows[i], style, c.deco)]
    IN  (IF c.deco = "lead" THEN Blank ELSE <<>>)
        \o JoinWith(lines, <<"\n">>)
        \o (IF c.deco = "trail" THEN Blank
            ELSE IF c.deco = "trailnl" THEN <<"\n">> ELSE <<>>)

InitDmon ==
    /\ dmonCase \in DmonCases
    /\ dmonStdout = RenderDmon(dmonCase)
    /\ dmonResult = Pending
    /\ fanCase = Idle
    /\ fanStdout = <<>>
    /\ fanResult = Pending
    /\ applet = Idle
    /\ mainloop = Idle
    /\ last = Idle
    /\ formatCase = Idle /\ formatResult = Pending
    /\ statsCase = Idle /\ statsResult = Pending

\* the call this._parseDmonOutput(output) of _executeDmon
ParseDmon ==
    /\ dmonResult = Pending
    /\ dmonResult' = _parseDmonOutput(dmonStdout)
    /\ UNCHANGED <<dmonCase, dmonStdout>>
    /\ UNCHANGED <<fanVars, appletVars, formatVars, statsVars>>

NextDmon == ParseDmon

SpecDmon == InitDmon /\ [][NextDmon]_vars

(***************************************************************************)
(* LayoutManager                                                           *)
(***************************************************************************)
LAYOUT_SINGLE_ROW == "single-row"
LAYOUT_TWO_ROW == "two-row"

\* LayoutManager.setLayout: the layout manager's currentLayout after the call
\* setLayout that takes any value
setLayout_unchecked(currentLayout, layout) == layout

setLayout(currentLayout, layout) ==
    IF layout # LAYOUT_SINGLE_ROW /\ layout # LAYOUT_TWO_ROW THEN currentLayout
    ELSE layout

\* formatSingleRow without the " | " between the values
formatSingleRow_noSeparator(stats) ==
    <<"G", "P", "U", ":", " ">> \o IntToStr(stats.gpu) \o <<"%", " ">>
    \o <<"M", "E", "M", ":", " ">> \o IntToStr(stats.mem) \o <<"%", " ">>
    \o <<"T", "E", "M", "P", ":", " ">> \o IntToStr(stats.temp) \o <<"°", "C", " ">>
    \o <<"F", "A", "N", ":", " ">> \o IntToStr(stats.fan) \o <<"%">>

formatSingleRow(stats) ==
    <<"G", "P", "U", ":", " ">> \o IntToStr(stats.gpu) \o <<"%", " ", "|", " ">>
    \o <<"M", "E", "M", ":", " ">> \o IntToStr(stats.mem) \o <<"%", " ", "|", " ">>
    \o <<"T", "E", "M", "P", ":", " ">> \o IntToStr(stats.temp) \o <<"°", "C", " ", "|", " ">>
    \o <<"F", "A", "N", ":", " ">> \o IntToStr(stats.fan) \o <<"%">>

formatTwoRow(stats) ==
    [row1 |-> <<"G", "P", "U", ":", " ">> \o IntToStr(stats.gpu) \o <<"%", " ", "M", "E", "M", ":", " ">>
              \o IntToStr(stats.mem) \o <<"%">>,
     row2 |-> <<"T", "E", "M", "P", ":", " ">> \o IntToStr(stats.temp) \o <<"°", "C", " ", "F", "A", "N", ":", " ">>
              \o IntToStr(stats.fan) \o <<"%">>]

format(currentLayout, stats) ==
    IF currentLayout = LAYOUT_TWO_ROW THEN formatTwoRow(stats)
    ELSE formatSingleRow(stats)

(***************************************************************************)
(* SpecFormat: a LayoutManager is created, setLayout is called with the    *)
(* layout asked for and format with a reading.                             *)
(***************************************************************************)
\* the layouts asked for: the two layouts and a value that is neither
FormatLayouts == {LAYOUT_SINGLE_ROW, LAYOUT_TWO_ROW, "grid"}

\* the values of a reading: one, two and three digits
PercentSamples == {0, 5, 42, 100}
DegreeSamples == {5, 55, 100}

FormatCases ==
    [requested : FormatLayouts,
     stats : [gpu : PercentSamples, mem : PercentSamples, temp : DegreeSamples,
              fan : PercentSamples \ {5}]]

Returned(value) == [type |-> "returned", value |-> value]

InitFormat ==
    /\ formatCase \in FormatCases
    /\ formatResult = Pending
    /\ fanCase = Idle /\ fanStdout = <<>> /\ fanResult = Pending
    /\ dmonCase = Idle /\ dmonStdout = <<>> /\ dmonResult = Pending
    /\ applet = Idle /\ mainloop = Idle /\ last = Idle
    /\ statsCase = Idle /\ statsResult = Pending

\* new LayoutManager(), setLayout(requested), format(stats)
Format ==
    /\ formatResult = Pending
    /\ formatResult' = Returned(format(setLayout(LAYOUT_SINGLE_ROW, formatCase.requested),
                                       formatCase.stats))
    /\ UNCHANGED <<formatCase, fanVars, dmonVars, appletVars, statsVars>>

NextFormat == Format

SpecFormat == InitFormat /\ [][NextFormat]_vars

(***************************************************************************)
(* NvidiaSMI.getStats and the two commands it runs.  A run of              *)
(* GLib.spawn_command_line_sync either throws or returns ok, the standard  *)
(* output and the exit code.                                               *)
(***************************************************************************)
SpawnThrows == [throws |-> TRUE]
SpawnResult(ok, stdout, exit_code) ==
    [throws |-> FALSE, ok |-> ok, stdout |-> stdout, exit_code |-> exit_code]

_executeDmon(run) ==
    IF run.throws THEN Null
    ELSE IF ~run.ok \/ run.exit_code # 0 THEN Null
    ELSE _parseDmonOutput(run.stdout)

\* _executeFanQuery whose parse leaves out the test of the upper limit
_executeFanQuery_noLimit(run) ==
    IF run.throws THEN Null
    ELSE IF ~run.ok \/ run.exit_code # 0 THEN Null
    ELSE _parseFanSpeed_noLimit(run.stdout)

_executeFanQuery(run) ==
    IF run.throws THEN Null
    ELSE IF ~run.ok \/ run.exit_code # 0 THEN Null
    ELSE _parseFanSpeed(run.stdout)

\* getStats that gives up the reading when the fan query gives no data
getStats_fanRequired(dmonRun, fanRun) ==
    LET dmonData == _executeDmon(dmonRun)
    IN  IF dmonData = Null THEN Null
        ELSE LET fanSpeed == _executeFanQuery(fanRun)
             IN  IF fanSpeed = Null THEN Null
                 ELSE [gpu |-> dmonData.gpu, mem |-> dmonData.mem, temp |-> dmonData.temp,
                       fan |-> fanSpeed.value]

getStats(dmonRun, fanRun) ==
    LET dmonData == _executeDmon(dmonRun)
    IN  IF dmonData = Null THEN Null
        ELSE LET fanSpeed == _executeFanQuery(fanRun)
             IN  [gpu |-> dmonData.gpu, mem |-> dmonData.mem, temp |-> dmonData.temp,
                  fan |-> IF fanSpeed = Null THEN 0 ELSE fanSpeed.value]

\* the commands getStats runs, in order: the fan query runs only once dmon
\* has given data
getStats_commands(dmonRun, fanRun) ==
    IF _executeDmon(dmonRun) = Null THEN <<"dmon">> ELSE <<"dmon", "fan">>

\* The error log (global.logError).  An entry is kept as the helper that wrote
\* it: NvidiaSMI._logError or MyApplet._logError.
NVIDIA_SMI == "NvidiaSMI"
MY_APPLET == "MyApplet"

\* what _parseDmonOutput and _parseFanSpeed write to the error log: each of
\* their "return null" is preceded by one this._logError
_parseDmonOutput_logError(stdout) ==
    IF _parseDmonOutput(stdout) = Null THEN <<NVIDIA_SMI>> ELSE <<>>

_parseFanSpeed_logError(stdout) ==
    IF _parseFanSpeed(stdout) = Null THEN <<NVIDIA_SMI>> ELSE <<>>

\* what _executeDmon and _executeFanQuery write to the error log
_executeDmon_logError(run) ==
    IF run.throws THEN <<NVIDIA_SMI>>
    ELSE IF ~run.ok \/ run.exit_code # 0 THEN <<NVIDIA_SMI>>
    ELSE _parseDmonOutput_logError(run.stdout)

_executeFanQuery_logError(run) ==
    IF run.throws THEN <<NVIDIA_SMI>>
    ELSE IF ~run.ok \/ run.exit_code # 0 THEN <<NVIDIA_SMI>>
    ELSE _parseFanSpeed_logError(run.stdout)

\* what getStats writes to the error log
getStats_logError(dmonRun, fanRun) ==
    IF _executeDmon(dmonRun) = Null THEN _executeDmon_logError(dmonRun)
    ELSE _executeFanQuery_logError(fanRun)

\* one call of getStats with these outcomes of the two commands: the value it
\* returns, the commands it runs and what it writes to the error log
getStats_call(dmonRun, fanRun) ==
    [value |-> getStats(dmonRun, fanRun),
     commands |-> getStats_commands(dmonRun, fanRun),
     logged |-> getStats_logError(dmonRun, fanRun)]

(***************************************************************************)
(* MyApplet.  The record "this" holds the applet's properties: the ones    *)
(* bound to settings, the layout manager's currentLayout, the timer id,    *)
(* the error counter, the two labels (a label is its text and the colour   *)
(* of its inline style, "" when the style names none) and the tooltip,     *)
(* the main box with the number of boxes attached to the actor, the items  *)
(* of the context menu with their dots, and the settings object with the   *)
(* values it has stored (null when the settings failed to initialize).     *)
(* An assignment to a property writes the property; the stored value is    *)
(* written by the settings panel and by settings.setValue.                 *)
(***************************************************************************)
REFRESH_INTERVAL_DEFAULT == 2
REFRESH_INTERVALS == {1, 2, 5, 10}
TEMP_WARNING_DEFAULT == 70
TEMP_CRITICAL_DEFAULT == 85
COLOR_NORMAL_DEFAULT == "rgba(74, 222, 128, 1.0)"
COLOR_WARNING_DEFAULT == "rgba(251, 191, 36, 1.0)"
COLOR_CRITICAL_DEFAULT == "rgba(239, 68, 68, 1.0)"
COLOR_WHITE == "#ffffff"

\* the JavaScript a || b for a number and for a string
OrNumber(a, b) == IF a = 0 THEN b ELSE a
OrString(a, b) == IF a = "" THEN b ELSE a

getTemperatureColor(this, temp) ==
    LET warningThreshold == OrNumber(this.tempWarningThreshold, 70)
        criticalThreshold == OrNumber(this.tempCriticalThreshold, 85)
    IN  IF temp < warningThreshold THEN OrString(this.colorNormal, COLOR_NORMAL_DEFAULT)
        ELSE IF temp >= warningThreshold /\ temp < criticalThreshold
             THEN OrString(this.colorWarning, COLOR_WARNING_DEFAULT)
        ELSE OrString(this.colorCritical, COLOR_CRITICAL_DEFAULT)

\* the label after _applyTemperatureStyle(label, temp)
_applyTemperatureStyle(this, label, temp) ==
    IF label = Null THEN label
    ELSE IF ~this.enableColorCoding THEN [label EXCEPT !.color = COLOR_WHITE]
    ELSE [label EXCEPT !.color = getTemperatureColor(this, temp)]

Label(text) == [text |-> text, color |-> ""]
PLACEHOLDER_SINGLE == <<"G", "P", "U", ":", " ", "-", "-">>
PLACEHOLDER_ROW1 == <<"G", "P", "U", ":", " ", "-", "-", " ", "M", "E", "M", ":", " ", "-", "-">>
PLACEHOLDER_ROW2 == <<"T", "E", "M", "P", ":", " ", "-", "-", " ", "F", "A", "N", ":", " ", "-", "-">>

\* new St.BoxLayout({vertical: ...})
BoxLayout(vertical) == [type |-> "box", vertical |-> vertical]

\* _createUI that does not destroy the box it already has
_createUI_noDestroy(this) ==
    IF this.currentLayout = LAYOUT_TWO_ROW
    THEN [this EXCEPT !._mainBox = BoxLayout(TRUE),
                      !._label1 = Label(PLACEHOLDER_ROW1),
                      !._label2 = Label(PLACEHOLDER_ROW2),
                      !.actor.boxes = @ + 1]
    ELSE [this EXCEPT !._mainBox = BoxLayout(FALSE),
                      !._label1 = Label(PLACEHOLDER_SINGLE),
                      !._label2 = Null,
                      !.actor.boxes = @ + 1]

\* destroy() takes the old box, with its labels, off the actor; add_actor
\* attaches the new one
_createUI(this) ==
    LET cleared == IF this._mainBox # Null
                   THEN [this EXCEPT !._mainBox = Null, !._label1 = Null, !._label2 = Null,
                                     !.actor.boxes = @ - 1]
                   ELSE this
    IN  IF cleared.currentLayout = LAYOUT_TWO_ROW
        THEN [cleared EXCEPT !._mainBox = BoxLayout(TRUE),
                             !._label1 = Label(PLACEHOLDER_ROW1),
                             !._label2 = Label(PLACEHOLDER_ROW2),
                             !.actor.boxes = @ + 1]
        ELSE [cleared EXCEPT !._mainBox = BoxLayout(FALSE),
                             !._label1 = Label(PLACEHOLDER_SINGLE),
                             !._label2 = Null,
                             !.actor.boxes = @ + 1]

\* _updateDisplay that styles only the bottom row of the two-row layout
_updateDisplay_bottomOnly(this, stats) ==
    LET formatted == format(this.currentLayout, stats)
    IN  IF this.currentLayout = LAYOUT_TWO_ROW
        THEN IF this._label1 # Null /\ this._label2 # Null
             THEN [this EXCEPT
                     !._label1 = [this._label1 EXCEPT !.text = formatted.row1],
                     !._label2 = _applyTemperatureStyle(this,
                                     [this._label2 EXCEPT !.text = formatted.row2],
                                     stats.temp)]
             ELSE this
        ELSE IF this._label1 # Null
             THEN [this EXCEPT
                     !._label1 = _applyTemperatureStyle(this,
                                     [this._label1 EXCEPT !.text = formatted],
                                     stats.temp)]
             ELSE this

_updateDisplay(this, stats) ==
    LET layout == this.currentLayout
        formatted == format(this.currentLayout, stats)
    IN  IF layout = LAYOUT_TWO_ROW
        THEN IF this._label1 # Null /\ this._label2 # Null
             THEN [this EXCEPT
                     !._label1 = _applyTemperatureStyle(this,
                                     [this._label1 EXCEPT !.text = formatted.row1],
                                     stats.temp),
                     !._label2 = _applyTemperatureStyle(this,
                                     [this._label2 EXCEPT !.text = formatted.row2],
                                     stats.temp)]
             ELSE this
        ELSE IF this._label1 # Null
             THEN [this EXCEPT
                     !._label1 = _applyTemperatureStyle(this,
                                     [this._label1 EXCEPT !.text = formatted],
                                     stats.temp)]
             ELSE this

\* the tooltip is kept as the values its text is built from
_updateTooltip(this, stats) ==
    [this EXCEPT !.tooltip = [kind |-> "stats", stats |-> stats,
                              refresh |-> this.refreshInterval]]

\* _handleError that counts the error and leaves the labels and the tooltip
_handleError_noDisplay(this, reason) == [this EXCEPT !._consecutiveErrors = @ + 1]

_handleError(this, reason) ==
    LET counted == [this EXCEPT !._consecutiveErrors = @ + 1]
    IN  IF counted._consecutiveErrors = 1
        THEN LET shown ==
                   IF counted.currentLayout = LAYOUT_TWO_ROW
                   THEN IF counted._label1 # Null /\ counted._label2 # Null
                        THEN [counted EXCEPT !._label1.text = PLACEHOLDER_ROW1,
                                             !._label2.text = PLACEHOLDER_ROW2]
                        ELSE counted
                   ELSE IF counted._label1 # Null
                        THEN [counted EXCEPT !._label1.text = PLACEHOLDER_SINGLE]
                        ELSE counted
             IN  [shown EXCEPT !.tooltip = [kind |-> "error", reason |-> reason]]
        ELSE counted

\* what _handleError writes to the error log: the first error of a run and
\* every 10th
_handleError_logError(this, reason) ==
    IF this._consecutiveErrors + 1 = 1 \/ (this._consecutiveErrors + 1) % 10 = 0
    THEN <<MY_APPLET>>
    ELSE <<>>

\* An attempt is what one call of _update meets: the outcomes of the two
\* commands, with the call of getStats they make, and, for the calls of the
\* try block that leave the applet's own code, whether one of them throws:
\* "display" is the first set_text of _updateDisplay, "tooltip" is
\* set_applet_tooltip of _updateTooltip.
Attempt(dmonRun, fanRun, fault) ==
    [dmon |-> dmonRun, fan |-> fanRun, getStats |-> getStats_call(dmonRun, fanRun),
     fault |-> fault]

\* _update without its try and catch: an exception ends it where it is raised
_update_uncaught(this, attempt) ==
    LET stats == attempt.getStats.value
    IN  IF stats = Null THEN _handleError(this, "Failed to get GPU stats")
        ELSE LET reset == [this EXCEPT !._consecutiveErrors = 0]
             IN  IF attempt.fault = "display" THEN reset
                 ELSE IF attempt.fault = "tooltip" THEN _updateDisplay(reset, stats)
                 ELSE _updateTooltip(_updateDisplay(reset, stats), stats)

_update(this, attempt) ==
    LET stats == attempt.getStats.value
    IN  IF stats = Null THEN _handleError(this, "Failed to get GPU stats")
        ELSE LET reset == [this EXCEPT !._consecutiveErrors = 0]
             IN  IF attempt.fault = "display"
                 THEN _handleError(reset, "Update exception")
                 ELSE IF attempt.fault = "tooltip"
                 THEN _handleError(_updateDisplay(reset, stats), "Update exception")
                 ELSE _updateTooltip(_updateDisplay(reset, stats), stats)

\* what _update writes to the error log
_update_logError(this, attempt) ==
    LET stats == attempt.getStats.value
        logged == attempt.getStats.logged
    IN  IF stats = Null
        THEN logged \o _handleError_logError(this, "Failed to get GPU stats")
        ELSE IF attempt.fault # "none"
        THEN logged \o <<MY_APPLET>>
             \o _handleError_logError([this EXCEPT !._consecutiveErrors = 0],
                                      "Update exception")
        ELSE logged

\* _update with a second call of getStats after a failed one
_update_commands_retry(attempt) ==
    IF attempt.getStats.value = Null
    THEN attempt.getStats.commands \o attempt.getStats.commands
    ELSE attempt.getStats.commands

\* the commands one call of _update runs: it calls getStats once
_update_commands(attempt) == attempt.getStats.commands

\* how _update ends: "ok", or "failed" (null stats), or "threw" (the catch)
_update_outcome(attempt) ==
    IF attempt.getStats.value = Null THEN "failed"
    ELSE IF attempt.fault # "none" THEN "threw"
    ELSE "ok"

_onStyleChanged(this, attempt) == _update(_createUI(this), attempt)

\* the settings object: the values stored under "layout" and "refreshInterval"
Settings(layout, refreshInterval) ==
    [type |-> "object", layout |-> layout, refreshInterval |-> refreshInterval]

\* MyApplet._init: settings is the settings object, whose bindings have given
\* layoutMode and refreshInterval their stored values, or null when the
\* settings failed to initialize and the catch set the defaults.  The styling
\* settings are at their defaults.
_init(settings) ==
    LET layoutMode == IF settings # Null THEN settings.layout ELSE LAYOUT_SINGLE_ROW
        refreshInterval == IF settings # Null THEN settings.refreshInterval
                           ELSE REFRESH_INTERVAL_DEFAULT
    IN  _createUI(
           [settings |-> settings,
            layoutMode |-> layoutMode,
            refreshInterval |-> OrNumber(refreshInterval, REFRESH_INTERVAL_DEFAULT),
            enableColorCoding |-> TRUE,
            tempWarningThreshold |-> TEMP_WARNING_DEFAULT,
            tempCriticalThreshold |-> TEMP_CRITICAL_DEFAULT,
            colorNormal |-> COLOR_NORMAL_DEFAULT,
            colorWarning |-> COLOR_WARNING_DEFAULT,
            colorCritical |-> COLOR_CRITICAL_DEFAULT,
            currentLayout |-> setLayout(LAYOUT_SINGLE_ROW,
                                        OrString(layoutMode, LAYOUT_SINGLE_ROW)),
            _timerId |-> Null,
            _consecutiveErrors |-> 0,
            _mainBox |-> Null,
            actor |-> [boxes |-> 0],
            _label1 |-> Null,
            _label2 |-> Null,
            _singleRowItem |-> Null,
            _twoRowItem |-> Null,
            _refreshItems |-> Null,
            tooltip |-> [kind |-> "init"]])

\* a settings binding stores a value of the settings panel under key and in
\* the property prop, before it runs the callback
bound(this, key, prop, value) == [this EXCEPT ![prop] = value, !.settings[key] = value]

\* a menu item: whether it shows the dot
MenuItem == [dot |-> FALSE]

\* _updateMenuStates: the dots of the two layout items, when both exist, and
\* of every item of _refreshItems (none before _setupContextMenu)
_updateMenuStates(this) ==
    LET layouts ==
            IF this._singleRowItem # Null /\ this._twoRowItem # Null
            THEN [this EXCEPT
                    !._singleRowItem.dot = (this.currentLayout = LAYOUT_SINGLE_ROW),
                    !._twoRowItem.dot = (this.currentLayout = LAYOUT_TWO_ROW)]
            ELSE this
    IN  IF layouts._refreshItems # Null
        THEN [layouts EXCEPT
                !._refreshItems.dots =
                    {interval \in layouts._refreshItems.keys :
                        interval = layouts.refreshInterval}]
        ELSE layouts

\* setValue that stores nothing
setValue_dropped(this, key, value) == this

\* settings.setValue(key, value), when it does not throw
setValue(this, key, value) == [this EXCEPT !.settings[key] = value]

\* how a call of settings.setValue ends
SAVED == "saved"
SAVE_THROWS == "throws"

\* _onLayoutChanged that leaves out the update
_onLayoutChanged_noUpdate(this, attempt) ==
    _updateMenuStates(
        _createUI([this EXCEPT
                     !.currentLayout = setLayout(this.currentLayout, this.layoutMode)]))

\* the callback of the layout binding; the binding has stored the value.
\* this._applet_context_menu exists since the parent's _init.
_onLayoutChanged(this, attempt) ==
    _updateMenuStates(
        _update(_createUI([this EXCEPT
                             !.currentLayout = setLayout(this.currentLayout, this.layoutMode)]),
                attempt))

\* _onMenuLayoutChanged(newLayout); save is how setValue ends, its exception
\* is caught
_onMenuLayoutChanged(this, newLayout, attempt, save) ==
    LET updated == _update(_createUI([this EXCEPT
                              !.layoutMode = newLayout,
                              !.currentLayout = setLayout(this.currentLayout, newLayout)]),
                           attempt)
        stored == IF updated.settings # Null /\ save = SAVED
                  THEN setValue(updated, "layout", newLayout)
                  ELSE updated
    IN  _updateMenuStates(stored)

(***************************************************************************)
(* The timer.  Mainloop is the set of live timeout sources, each with its  *)
(* period, and the id the next source gets.  A world is the applet with    *)
(* the Mainloop it acts on.                                                *)
(***************************************************************************)
World(this, ml) == [this |-> this, ml |-> ml]

\* Mainloop.source_remove(id)
source_remove(ml, id) == [ml EXCEPT !.sources = {src \in @ : src.id # id}]

\* Mainloop.timeout_add_seconds(interval, callback): the new source has id ml.nextId
timeout_add_seconds(ml, interval) ==
    [ml EXCEPT !.sources = @ \cup {[id |-> ml.nextId, interval |-> interval]},
               !.nextId = @ + 1]

\* _startTimer that does not cancel the timer it already has
_startTimer_noCancel(w) ==
    World([w.this EXCEPT !._timerId = Num(w.ml.nextId)],
          timeout_add_seconds(w.ml, w.this.refreshInterval))

_startTimer(w) ==
    LET cleared == IF w.this._timerId # Null
                   THEN World([w.this EXCEPT !._timerId = Null],
                              source_remove(w.ml, w.this._timerId.value))
                   ELSE w
    IN  World([cleared.this EXCEPT !._timerId = Num(cleared.ml.nextId)],
              timeout_add_seconds(cleared.ml, cleared.this.refreshInterval))

\* _stopTimer that forgets the id without removing the source
_stopTimer_keepSource(w) ==
    IF w.this._timerId # Null THEN World([w.this EXCEPT !._timerId = Null], w.ml) ELSE w

_stopTimer(w) ==
    IF w.this._timerId # Null
    THEN World([w.this EXCEPT !._timerId = Null],
               source_remove(w.ml, w.this._timerId.value))
    ELSE w

on_applet_added_to_panel(w, attempt) ==
    _startTimer(World(_update(w.this, attempt), w.ml))

on_applet_removed_from_panel(w) == _stopTimer(w)

\* the callback _startTimer gives to timeout_add_seconds: it runs _update and
\* returns true
timerCallback(this, attempt) == [this |-> _update(this, attempt), continue |-> TRUE]

\* Mainloop after the callback of the timeout source id returned: the source
\* stays while its callback returns true
dispatched(ml, id, continue) == IF continue THEN ml ELSE source_remove(ml, id)

\* _onMenuRefreshChanged(newInterval); save is how setValue ends, its
\* exception is not caught and ends the handler
_onMenuRefreshChanged(w, newInterval, save) ==
    LET started == _startTimer(_stopTimer(
                       World([w.this EXCEPT !.refreshInterval = newInterval], w.ml)))
    IN  IF started.this.settings # Null /\ save = SAVE_THROWS THEN started
        ELSE LET stored == IF started.this.settings # Null
                           THEN setValue(started.this, "refreshInterval", newInterval)
                           ELSE started.this
             IN  World(_updateMenuStates(stored), started.ml)

\* _onRefreshIntervalChanged that leaves the running timer alone
_onRefreshIntervalChanged_noRestart(w) == World(_updateMenuStates(w.this), w.ml)

\* the callback of the refreshInterval binding; the binding has stored the value
_onRefreshIntervalChanged(w) ==
    LET restarted == IF w.this._timerId # Null THEN _startTimer(_stopTimer(w)) ELSE w
    IN  World(_updateMenuStates(restarted.this), restarted.ml)

\* _setupContextMenu: the two layout items, one item per refresh interval in
\* this._refreshItems (its keys, and the keys of the items that show the
\* dot), then _updateMenuStates
_setupContextMenu(this) ==
    _updateMenuStates(
        [this EXCEPT !._singleRowItem = MenuItem,
                     !._twoRowItem = MenuItem,
                     !._refreshItems = [type |-> "object", keys |-> REFRESH_INTERVALS,
                                        dots |-> {}]])

(***************************************************************************)
(* The inputs of the applet: what the two commands return at an update,    *)
(* and the values the settings panel can give the bound properties.        *)
(***************************************************************************)
\* the ranges of the two threshold settings are 50-95 and 60-100: the top of
\* the warning range and the bottom of the critical range
TEMP_WARNING_MAX == 95
TEMP_CRITICAL_MIN == 60

WarningChoices == {TEMP_WARNING_DEFAULT, TEMP_WARNING_MAX}
CriticalChoices == {TEMP_CRITICAL_MIN, TEMP_CRITICAL_DEFAULT}

\* the temperatures read: the default thresholds and the degree below each
TempSamples ==
    UNION {{t - 1, t} : t \in {TEMP_WARNING_DEFAULT, TEMP_CRITICAL_DEFAULT}}

\* a report as nvidia-smi prints it for one GPU at temperature temp
SampleReport(temp) ==
    RenderDmon([kind |-> "rows", headers |-> 2, deco |-> "trailnl", style |-> "padded",
                t |-> IntField(temp), g |-> IntField(13), m |-> IntField(6), nf |-> 6,
                extra |-> <<>>])

DmonRuns ==
    {SpawnThrows, SpawnResult(TRUE, <<>>, 1), SpawnResult(TRUE, HeaderLine, 0)}
    \cup {SpawnResult(TRUE, SampleReport(temp), 0) : temp \in TempSamples}

FanRunOk == SpawnResult(TRUE, <<"5", "5", "\n">>, 0)
FanRuns == {FanRunOk, SpawnThrows}

\* what an update can meet.  The fan query is not run when dmon gives no
\* data; one reading is taken for the updates in which a call of the display
\* or of the tooltip throws.
Attempts ==
    {Attempt(d, FanRunOk, "none") : d \in {r \in DmonRuns : _executeDmon(r) = Null}}
    \cup {Attempt(d, f, "none") : d \in {r \in DmonRuns : _executeDmon(r) # Null},
                                  f \in FanRuns}
    \cup {Attempt(SpawnResult(TRUE, SampleReport(TEMP_CRITICAL_DEFAULT), 0), FanRunOk, fault) :
             fault \in {"display", "tooltip"}}

\* every reading getStats can return at an update, null included
Readings == {a.getStats.value : a \in Attempts}

\* the styling settings that change in this model; the three colour settings
\* and the font and padding settings run the same _onStyleChanged and keep
\* their default values here
StyleKeys == {"enableColorCoding", "tempWarningThreshold", "tempCriticalThreshold"}

StyleValues(key) ==
    CASE key = "enableColorCoding" -> BOOLEAN
      [] key = "tempWarningThreshold" -> WarningChoices
      [] key = "tempCriticalThreshold" -> CriticalChoices

LayoutValues == {LAYOUT_SINGLE_ROW, LAYOUT_TWO_ROW}

\* a failed update counts up _consecutiveErrors: taken only below the bound
UpdateAllowed(attempt, maxRun) ==
    _update_outcome(attempt) = "ok" \/ last.run < maxRun

\* starting a timer takes a new source id: taken only below the bound
TimerAllowed(maxSources) == mainloop.nextId <= maxSources

\* The record last tells how the program got to the current state: the handler
\* that ran last, how its _update ended ("none" when it runs no update), the
\* commands that update ran, those of them that raised an exception, what the
\* update wrote to the error log, and the number of updates that did not
\* succeed since the last one that did, what getStats returned to the update,
\* whether on_applet_added_to_panel has run with no
\* on_applet_removed_from_panel after it; for a selection in the context menu,
\* the value selected and how saving it ended.
Range(seq) == {seq[i] : i \in DOMAIN seq}

AfterUpdate(call, this, attempt) ==
    [call |-> call,
     update |-> _update_outcome(attempt),
     commands |-> _update_commands(attempt),
     raised |-> {c \in {"dmon", "fan"} : attempt[c].throws} \cap Range(_update_commands(attempt)),
     logged |-> _update_logError(this, attempt),
     run |-> IF _update_outcome(attempt) = "ok" THEN 0 ELSE last.run + 1,
     reading |-> attempt.getStats.value,
     onPanel |-> (call = "on_applet_added_to_panel" \/ last.onPanel),
     selected |-> Null, save |-> "none"]

AfterCallInit ==
    [call |-> "_init", update |-> "none", commands |-> <<>>, raised |-> {}, logged |-> <<>>,
     run |-> 0, reading |-> Null, onPanel |-> FALSE, selected |-> Null, save |-> "none"]

AfterCall(call) ==
    [call |-> call, update |-> "none", commands |-> <<>>, raised |-> {}, logged |-> <<>>,
     run |-> last.run, reading |-> Null,
     onPanel |-> (call # "on_applet_removed_from_panel" /\ last.onPanel),
     selected |-> Null, save |-> "none"]

\* a selection in the context menu: the value selected and how the call of
\* setValue ended ("none" when there is no settings object to call)
Selected(after, this, value, save) ==
    [after EXCEPT !.selected = [value |-> value],
                  !.save = IF this.settings # Null THEN save ELSE "none"]

(***************************************************************************)
(* The applet as a state machine: MyApplet._init, then the callbacks the   *)
(* host runs, one at a time.                                               *)
(***************************************************************************)
\* MyApplet._init with the settings at their defaults
InitApplet ==
    /\ applet = _init(Settings(LAYOUT_SINGLE_ROW, REFRESH_INTERVAL_DEFAULT))
    /\ mainloop = [sources |-> {}, nextId |-> 1]
    /\ last = AfterCallInit
    /\ fanCase = Idle /\ fanStdout = <<>> /\ fanResult = Pending
    /\ dmonCase = Idle /\ dmonStdout = <<>> /\ dmonResult = Pending
    /\ formatCase = Idle /\ formatResult = Pending
    /\ statsCase = Idle /\ statsResult = Pending

\* the idle callback of _init runs _setupContextMenu, once
SetupContextMenu ==
    /\ applet._refreshItems = Null
    /\ applet' = _setupContextMenu(applet)
    /\ last' = AfterCall("_setupContextMenu")
    /\ UNCHANGED <<mainloop, fanVars, dmonVars, formatVars, statsVars>>

\* a styling setting changes: the binding stores the value, then _onStyleChanged
StyleSettingChangedOn(keys, attempts, maxRun) ==
    \E key \in keys : \E value \in StyleValues(key) : \E attempt \in attempts :
        /\ applet.settings # Null
        /\ value # applet[key]
        /\ UpdateAllowed(attempt, maxRun)
        /\ applet' = _onStyleChanged([applet EXCEPT ![key] = value], attempt)
        /\ last' = AfterUpdate("_onStyleChanged", _createUI(applet), attempt)
        /\ UNCHANGED <<mainloop, fanVars, dmonVars, formatVars, statsVars>>

\* the layout setting changes: the binding stores the value, then _onLayoutChanged
LayoutSettingChangedOn(layouts, attempts, maxRun) ==
    \E layout \in layouts : \E attempt \in attempts :
        /\ applet.settings # Null
        /\ layout # applet.settings.layout
        /\ UpdateAllowed(attempt, maxRun)
        /\ applet' = _onLayoutChanged(bound(applet, "layout", "layoutMode", layout), attempt)
        /\ last' = AfterUpdate("_onLayoutChanged", _createUI(applet), attempt)
        /\ UNCHANGED <<mainloop, fanVars, dmonVars, formatVars, statsVars>>

\* a layout item of the context menu is activated
MenuLayoutChangedOn(attempts, maxRun, saves) ==
    \E layout \in LayoutValues : \E attempt \in attempts : \E save \in saves :
        /\ applet._singleRowItem # Null /\ applet._twoRowItem # Null
        /\ UpdateAllowed(attempt, maxRun)
        /\ applet' = _onMenuLayoutChanged(applet, layout, attempt, save)
        /\ last' = Selected(AfterUpdate("_onMenuLayoutChanged", _createUI(applet), attempt),
                            applet, layout, save)
        /\ UNCHANGED <<mainloop, fanVars, dmonVars, formatVars, statsVars>>

\* the refreshInterval setting is written: the binding stores the value, then
\* _onRefreshIntervalChanged.  The write can be the one _onMenuRefreshChanged
\* made with setValue, so the value can be the current one.
RefreshSettingChangedOn(intervals, maxSources) ==
    \E interval \in intervals :
        /\ applet.settings # Null
        /\ applet._timerId # Null => TimerAllowed(maxSources)
        /\ LET w == _onRefreshIntervalChanged(
                        World(bound(applet, "refreshInterval", "refreshInterval", interval),
                              mainloop))
           IN  applet' = w.this /\ mainloop' = w.ml
        /\ last' = AfterCall("_onRefreshIntervalChanged")
        /\ UNCHANGED <<fanVars, dmonVars, formatVars, statsVars>>

\* a refresh interval item of the context menu is activated
MenuRefreshChangedOn(intervals, maxSources, saves) ==
    \E interval \in intervals : \E save \in saves :
        /\ applet._refreshItems # Null /\ interval \in applet._refreshItems.keys
        /\ TimerAllowed(maxSources)
        /\ LET w == _onMenuRefreshChanged(World(applet, mainloop), interval, save)
           IN  applet' = w.this /\ mainloop' = w.ml
        /\ last' = Selected(AfterCall("_onMenuRefreshChanged"), applet, interval, save)
        /\ UNCHANGED <<fanVars, dmonVars, formatVars, statsVars>>

\* a live timeout source fires: Mainloop runs its callback
TimerCallbackOn(attempts, maxRun) ==
    \E src \in mainloop.sources : \E attempt \in attempts :
        /\ UpdateAllowed(attempt, maxRun)
        /\ LET r == timerCallback(applet, attempt)
           IN  /\ applet' = r.this
               /\ mainloop' = dispatched(mainloop, src.id, r.continue)
        /\ last' = AfterUpdate("timerCallback", applet, attempt)
        /\ UNCHANGED <<fanVars, dmonVars, formatVars, statsVars>>

AddedToPanelOn(attempts, maxRun, maxSources) ==
    \E attempt \in attempts :
        /\ TimerAllowed(maxSources)
        /\ UpdateAllowed(attempt, maxRun)
        /\ LET w == on_applet_added_to_panel(World(applet, mainloop), attempt)
           IN  applet' = w.this /\ mainloop' = w.ml
        /\ last' = AfterUpdate("on_applet_added_to_panel", applet, attempt)
        /\ UNCHANGED <<fanVars, dmonVars, formatVars, statsVars>>

RemovedFromPanel ==
    /\ LET w == on_applet_removed_from_panel(World(applet, mainloop))
       IN  applet' = w.this /\ mainloop' = w.ml
    /\ last' = AfterCall("on_applet_removed_from_panel")
    /\ UNCHANGED <<fanVars, dmonVars, formatVars, statsVars>>

(***************************************************************************)
(* Spec: the applet's display.  The settings of the styling and of the     *)
(* layout change, the applet is added to and removed from the panel and    *)
(* its timer fires, with every attempt of Attempts.                        *)
(***************************************************************************)
StyleSettingChanged == StyleSettingChangedOn(StyleKeys, Attempts, MaxConsecutiveErrors)

LayoutSettingChanged == LayoutSettingChangedOn(LayoutValues, Attempts, MaxConsecutiveErrors)

TimerCallback == TimerCallbackOn(Attempts, MaxConsecutiveErrors)

AddedToPanel == AddedToPanelOn(Attempts, MaxConsecutiveErrors, MaxSources)

Next ==
    \/ StyleSettingChanged
    \/ LayoutSettingChanged
    \/ TimerCallback
    \/ AddedToPanel
    \/ RemovedFromPanel

Spec == InitApplet /\ [][Next]_vars

(***************************************************************************)
(* SpecTimer: the applet's timer.  The refresh interval changes through    *)
(* the settings and through the context menu, the applet is added to and   *)
(* removed from the panel and its timer fires, with one attempt for each   *)
(* way an update ends; the runs of failed updates are long enough for the  *)
(* 10th error of a run.                                                    *)
(***************************************************************************)
TimerAttempts ==
    {Attempt(SpawnResult(TRUE, SampleReport(TEMP_WARNING_DEFAULT), 0), FanRunOk, "none"),
     Attempt(SpawnResult(TRUE, <<>>, 1), FanRunOk, "none"),
     Attempt(SpawnResult(TRUE, SampleReport(TEMP_WARNING_DEFAULT), 0), FanRunOk, "tooltip")}

RefreshSettingChanged == RefreshSettingChangedOn(REFRESH_INTERVALS, MaxTimerStarts)

\* in SpecTimer every save of a selection succeeds
MenuRefreshChanged == MenuRefreshChangedOn(REFRESH_INTERVALS, MaxTimerStarts, {SAVED})

TimerFires == TimerCallbackOn(TimerAttempts, MaxErrorRun)

PanelAdds == AddedToPanelOn(TimerAttempts, MaxErrorRun, MaxTimerStarts)

NextTimer ==
    \/ SetupContextMenu
    \/ RefreshSettingChanged
    \/ MenuRefreshChanged
    \/ TimerFires
    \/ PanelAdds
    \/ RemovedFromPanel

SpecTimer == InitApplet /\ [][NextTimer]_vars

(***************************************************************************)
(* SpecMenu: the context menu and the settings.  The applet starts with    *)
(* settings that hold a layout, valid or not, or with no settings object;  *)
(* layouts and refresh intervals are selected in the menu, with a save     *)
(* that succeeds or throws, and edited in the settings panel; a styling    *)
(* setting changes; the applet is added to and removed from the panel and  *)
(* its timer fires.                                                        *)
(***************************************************************************)
MaxMenuTimerStarts == 3

\* the layouts the stored setting can hold: the two layouts and another value
MenuLayoutValues == LayoutValues \cup {"grid"}

\* the intervals selected and edited: the default and another
MenuIntervals == {REFRESH_INTERVAL_DEFAULT, 5}

SaveOutcomes == {SAVED, SAVE_THROWS}

\* two readings and a failure
MenuAttempts ==
    {Attempt(SpawnResult(TRUE, SampleReport(temp), 0), FanRunOk, "none") :
        temp \in {TEMP_WARNING_DEFAULT - 1, TEMP_WARNING_DEFAULT}}
    \cup {Attempt(SpawnResult(TRUE, <<>>, 1), FanRunOk, "none")}

InitMenu ==
    /\ \E settings \in {Null} \cup {Settings(layout, REFRESH_INTERVAL_DEFAULT) :
                                        layout \in MenuLayoutValues} :
          applet = _init(settings)
    /\ mainloop = [sources |-> {}, nextId |-> 1]
    /\ last = AfterCallInit
    /\ fanCase = Idle /\ fanStdout = <<>> /\ fanResult = Pending
    /\ dmonCase = Idle /\ dmonStdout = <<>> /\ dmonResult = Pending
    /\ formatCase = Idle /\ formatResult = Pending
    /\ statsCase = Idle /\ statsResult = Pending

MenuLayoutSelected == MenuLayoutChangedOn(MenuAttempts, MaxConsecutiveErrors, SaveOutcomes)

MenuRefreshSelected == MenuRefreshChangedOn(MenuIntervals, MaxMenuTimerStarts, SaveOutcomes)

LayoutSettingEdited ==
    LayoutSettingChangedOn(MenuLayoutValues, MenuAttempts, MaxConsecutiveErrors)

RefreshSettingEdited == RefreshSettingChangedOn(MenuIntervals, MaxMenuTimerStarts)

StyleSettingEdited ==
    StyleSettingChangedOn({"enableColorCoding"}, MenuAttempts, MaxConsecutiveErrors)

MenuPanelAdds == AddedToPanelOn(MenuAttempts, MaxConsecutiveErrors, MaxMenuTimerStarts)

MenuTimerFires == TimerCallbackOn(MenuAttempts, MaxConsecutiveErrors)

NextMenu ==
    \/ SetupContextMenu
    \/ MenuLayoutSelected
    \/ MenuRefreshSelected
    \/ LayoutSettingEdited
    \/ RefreshSettingEdited
    \/ StyleSettingEdited
    \/ MenuPanelAdds
    \/ MenuTimerFires
    \/ RemovedFromPanel

SpecMenu == InitMenu /\ [][NextMenu]_vars

(***************************************************************************)
(* SpecStats: one update of a new applet, for every pair of outcomes of    *)
(* the two commands: the dmon runs of Spec and a report with a negative    *)
(* field, with a fan query that throws, fails, or prints a number in or    *)
(* out of range or a short string over RawAlphabet.                        *)
(***************************************************************************)
MaxStatsRawLen == 2

StatsDmonRuns ==
    DmonRuns
    \cup {SpawnResult(FALSE, SampleReport(TEMP_WARNING_DEFAULT), 0),
          SpawnResult(TRUE,
              RenderDmon([kind |-> "rows", headers |-> 2, deco |-> "none", style |-> "tight",
                          t |-> IntField(45), g |-> IntField(0), m |-> IntField(0 - 5),
                          nf |-> 7, extra |-> <<>>]), 0)}

StatsFanValues == {0 - MaxNegFan, 0, 55, 100, 101, MaxFanValue}

StatsFanRuns ==
    {SpawnThrows, SpawnResult(FALSE, <<"5", "5">>, 0), SpawnResult(TRUE, <<"5", "5">>, 1)}
    \cup {SpawnResult(TRUE, IntToStr(n) \o <<"\n">>, 0) : n \in StatsFanValues}
    \cup {SpawnResult(TRUE, text, 0) :
             text \in UNION {[1..k -> RawAlphabet] : k \in 0..MaxStatsRawLen}}

StatsCases == [dmon : StatsDmonRuns, fan : StatsFanRuns]

InitStats ==
    /\ statsCase \in StatsCases
    /\ statsResult = Pending
    /\ applet = _init(Settings(LAYOUT_SINGLE_ROW, REFRESH_INTERVAL_DEFAULT))
    /\ mainloop = [sources |-> {}, nextId |-> 1]
    /\ last = AfterCallInit
    /\ fanCase = Idle /\ fanStdout = <<>> /\ fanResult = Pending
    /\ dmonCase = Idle /\ dmonStdout = <<>> /\ dmonResult = Pending
    /\ formatCase = Idle /\ formatResult = Pending

\* this._update(): its call of getStats meets the outcomes of statsCase
UpdateOnce ==
    /\ statsResult = Pending
    /\ LET attempt == Attempt(statsCase.dmon, statsCase.fan, "none")
       IN  /\ statsResult' = Returned(attempt.getStats.value)
           /\ applet' = _update(applet, attempt)
           /\ last' = AfterUpdate("_update", applet, attempt)
    /\ UNCHANGED <<statsCase, mainloop, fanVars, dmonVars, formatVars>>

NextStats == UpdateOnce

SpecStats == InitStats /\ [][NextStats]_vars

(***************************************************************************)
(* Properties of _parseDmonOutput, checked under SpecDmon.                 *)
(***************************************************************************)
DmonParsed == dmonResult # Pending

\* the first data row has at least 6 fields with integers at index 2, 4 and 5
WellFormedRow(c) ==
    /\ c.kind = "rows"
    /\ c.nf >= 6
    /\ c.t.kind = "int" /\ c.g.kind = "int" /\ c.m.kind = "int"

\* every header line of the output starts with '#'
HashPrefixedHeaders(c) == c.headers = 0 \/ c.deco \notin {"lead", "hpre"}

ExpectedDmon(c) == [gpu |-> c.g.n, mem |-> c.m.n, temp |-> c.t.n]

\* C1: for a report of '#'-prefixed header lines followed by data rows whose
\* first row has at least 6 fields with integers at index 2, 4 and 5,
\* _parseDmonOutput returns temp, gpu and mem as the integers at index 2, 4
\* and 5 of the first data row, whatever the later rows hold.
C1_FirstRowColumns ==
    (DmonParsed /\ WellFormedRow(dmonCase) /\ HashPrefixedHeaders(dmonCase))
        => dmonResult = ExpectedDmon(dmonCase)

\* C1 witness: a two-header report in nvidia-smi's padded layout with a second
\* GPU's row of other values was parsed to the first row's columns.
C1_Witness ==
    /\ DmonParsed
    /\ dmonCase.kind = "rows" /\ dmonCase.headers = 2 /\ dmonCase.style = "padded"
    /\ dmonCase.deco = "none"
    /\ Len(dmonCase.extra) = 1 /\ Len(dmonCase.extra[1]) >= 6
    /\ dmonCase.nf = 7
    /\ dmonResult = [gpu |-> 13, mem |-> 6, temp |-> 45]

\* C2: _parseDmonOutput returns null for every input that is empty or
\* white space only, that holds only '#'-prefixed header lines, whose first
\* data row has fewer than 6 fields, or whose first data row has a
\* non-numeric field at index 2, 4 or 5.
C2_RejectsMalformed ==
    (/\ DmonParsed
     /\ HashPrefixedHeaders(dmonCase)
     /\ \/ dmonCase.kind = "norows"
        \/ dmonCase.nf < 6
        \/ dmonCase.t.kind = "txt" \/ dmonCase.g.kind = "txt" \/ dmonCase.m.kind = "txt")
        => dmonResult = Null

\* C3: for a well-formed report, adding leading or trailing white space to
\* the output as a whole or to any of its lines, header lines included, does
\* not change the result of _parseDmonOutput.
C3_WhiteSpaceTolerant ==
    (DmonParsed /\ WellFormedRow(dmonCase))
        => dmonResult = _parseDmonOutput(RenderDmon([dmonCase EXCEPT !.deco = "none"]))

(***************************************************************************)
(* Properties of _parseFanSpeed, checked under SpecFan.                    *)
(***************************************************************************)
FanParsed == fanResult # Pending

\* C4: for every integer n with 0 <= n <= 100, the decimal digits of n,
\* optionally surrounded by spaces and a trailing newline, are parsed by
\* _parseFanSpeed to exactly n.
C4_FanInRange ==
    (FanParsed /\ fanCase.kind = "int" /\ fanCase.n >= 0 /\ fanCase.n <= 100)
        => fanResult = Num(fanCase.n)

\* C4 witness: " 100 \n"-like output, the upper end of the range with blanks on
\* both sides and a trailing newline, was parsed to 100.
C4_Witness ==
    /\ FanParsed
    /\ fanCase.kind = "int" /\ fanCase.n = 100
    /\ fanCase.padL # <<>> /\ Len(fanCase.padR) = 3
    /\ fanResult = Num(100)

\* C5: a fan-speed output whose value is below 0, such as "-5", is rejected:
\* _parseFanSpeed returns null for every negative value.
C5_FanNegativeRejected ==
    (FanParsed /\ fanCase.kind = "int" /\ fanCase.n < 0) => fanResult = Null

\* a text is a number when, trimmed, it is decimal digits with at most one
\* leading '-' and at most one '.', and holds at least one digit
OnlyDigits(s) == \A i \in 1..Len(s) : s[i] \in Digits
IsNumberText(s) ==
    LET t == Trim(s)
        u == IF StartsWith(t, "-") THEN Tail(t) ELSE t
    IN  \/ u # <<>> /\ OnlyDigits(u)
        \/ \E k \in 1..Len(u) :
              /\ u[k] = "."
              /\ Len(u) >= 2
              /\ OnlyDigits(SubSeq(u, 1, k - 1))
              /\ OnlyDigits(SubSeq(u, k + 1, Len(u)))

\* C6: a fan-speed output that is non-numeric text is rejected:
\* _parseFanSpeed returns null for every output that is not a number, and
\* for empty or white-space-only output.
C6_FanNonNumericRejected ==
    (FanParsed /\ ~IsNumberText(fanStdout)) => fanResult = Null

\* C7: a fan-speed output whose value is above 100 is rejected:
\* _parseFanSpeed returns null for every integer value greater than 100.
C7_FanAbove100Rejected ==
    (FanParsed /\ fanCase.kind = "int" /\ fanCase.n > 100) => fanResult = Null

\* C7 witness: the output "150" of the parser's own test was parsed to null.
C7_Witness ==
    /\ FanParsed
    /\ fanCase.kind = "int" /\ fanCase.n = 150 /\ fanStdout = <<"1", "5", "0">>
    /\ fanResult = Null

(***************************************************************************)
(* Properties of the temperature colours, checked under Spec.              *)
(***************************************************************************)
\* C8: for every temperature and every configured pair of thresholds,
\* getTemperatureColor returns the normal colour when temp is below the
\* warning threshold, the warning colour when temp is at or above the warning
\* threshold and below the critical threshold, and the critical colour when
\* temp is at or above the critical threshold.
C8_ColorBands ==
    \A temp \in TempSamples :
        LET color == getTemperatureColor(applet, temp)
        IN  /\ temp < applet.tempWarningThreshold => color = applet.colorNormal
            /\ (temp >= applet.tempWarningThreshold /\ temp < applet.tempCriticalThreshold)
                   => color = applet.colorWarning
            /\ temp >= applet.tempCriticalThreshold => color = applet.colorCritical

\* C9: in every reachable state, after any sequence of settings changes,
\* tempWarningThreshold is below tempCriticalThreshold.
C9_ThresholdsOrdered == applet.tempWarningThreshold < applet.tempCriticalThreshold

\* the labels show the reading stats in the current layout
Shows(this, stats) ==
    IF this.currentLayout = LAYOUT_TWO_ROW
    THEN /\ this._label1 # Null /\ this._label1.text = formatTwoRow(stats).row1
         /\ this._label2 # Null /\ this._label2.text = formatTwoRow(stats).row2
    ELSE this._label1 # Null /\ this._label1.text = formatSingleRow(stats)

\* every label of the applet has this colour
ShownIn(this, color) ==
    /\ this._label1 # Null /\ this._label1.color = color
    /\ this._label2 # Null => this._label2.color = color

DefaultThresholds(this) ==
    /\ this.tempWarningThreshold = TEMP_WARNING_DEFAULT
    /\ this.tempCriticalThreshold = TEMP_CRITICAL_DEFAULT

\* C10: with the default thresholds (warning 70, critical 85) a reading of 70
\* to 85 degrees inclusive is shown in the warning colour, only a reading above
\* 85 in the critical colour, and a reading below 70 in the normal colour, as
\* the README and the changelog document the bands.  (getTemperatureColor
\* tests temp < criticalThreshold, so 85 itself is shown as critical.)
C10_BandsAsDocumented ==
    \A stats \in Readings \ {Null} :
        (DefaultThresholds(applet) /\ applet.enableColorCoding /\ Shows(applet, stats))
            => ShownIn(applet,
                       IF stats.temp < 70 THEN applet.colorNormal
                       ELSE IF stats.temp <= 85 THEN applet.colorWarning
                       ELSE applet.colorCritical)

(***************************************************************************)
(* Properties of the timer, checked under SpecTimer.                       *)
(***************************************************************************)
\* the live timeout source that this._timerId names, with the current period
OwnTimer(this) == [id |-> this._timerId.value, interval |-> this.refreshInterval]

\* C11: at most one repeating timer exists at a time: after any sequence of
\* panel additions and removals, menu selections of a refresh interval and
\* changes of the refreshInterval setting, 0 or 1 timeout sources are live,
\* and a live one is the one recorded in _timerId.
C11_AtMostOneTimer ==
    /\ Cardinality(mainloop.sources) <= 1
    /\ \A src \in mainloop.sources : applet._timerId = Num(src.id)

\* C11 witness: a timer is live after the menu restarted one that was running
C11_Witness ==
    /\ last.call = "_onMenuRefreshChanged"
    /\ mainloop.nextId > 2
    /\ applet._timerId # Null /\ mainloop.sources = {OwnTimer(applet)}

\* C12: the timer is restarted when the interval preference changes: a live
\* timeout source always has the current refreshInterval as its period, and a
\* step that changes refreshInterval while a timer is running removes that
\* timer's source and leaves a new source, with the new period, as the timer.
C12_TimerRestarted ==
    /\ [](\A src \in mainloop.sources : src.interval = applet.refreshInterval)
    /\ [][(applet._timerId # Null /\ applet'.refreshInterval # applet.refreshInterval)
            => /\ applet'._timerId # Null
               /\ applet'._timerId # applet._timerId
               /\ mainloop'.sources = {OwnTimer(applet')}]_vars

\* C12 witness: the settings binding changed the interval of a running timer
C12_Witness ==
    /\ last.call = "_onRefreshIntervalChanged"
    /\ applet.refreshInterval # REFRESH_INTERVAL_DEFAULT
    /\ applet._timerId # Null /\ mainloop.sources = {OwnTimer(applet)}
    /\ mainloop.nextId > 2

\* C13: once on_applet_removed_from_panel has run no repeating timer is left:
\* no timeout source is live and _timerId is null, whatever additions and
\* interval changes came before.
C13_NoTimerAfterRemoval ==
    last.call = "on_applet_removed_from_panel"
        => applet._timerId = Null /\ mainloop.sources = {}

\* C13 witness: the applet was removed after its timer had been restarted
\* with another interval
C13_Witness ==
    /\ last.call = "on_applet_removed_from_panel"
    /\ mainloop.nextId > 2
    /\ applet.refreshInterval # REFRESH_INTERVAL_DEFAULT

\* no command occurs twice in a sequence of commands
NoRepeat(commands) == Cardinality(Range(commands)) = Len(commands)

\* C17: no retries and no backoff: a timer tick whose update fails runs each
\* command at most once (only dmon when dmon fails) and leaves _timerId, the
\* timeout sources and the period as they were, the timer still being live
\* with refreshInterval as its period.
C17_NoRetryNoBackoff ==
    [][(last'.call = "timerCallback" /\ last'.update # "ok" /\ last' # last)
        => /\ NoRepeat(last'.commands)
           /\ last'.update = "failed" => last'.commands = <<"dmon">>
           /\ applet'._timerId = applet._timerId
           /\ applet'.refreshInterval = applet.refreshInterval
           /\ mainloop' = mainloop
           /\ applet'._timerId # Null /\ OwnTimer(applet') \in mainloop'.sources]_vars

\* C17 witness: the third failed update in a row was a timer tick, and the
\* timer is live
C17_Witness ==
    /\ last.call = "timerCallback" /\ last.update = "failed" /\ last.run >= 3
    /\ applet._timerId # Null /\ OwnTimer(applet) \in mainloop.sources

(***************************************************************************)
(* Properties of the updates and of their failures.                        *)
(***************************************************************************)
\* the labels show the placeholder text of the current layout
Placeholders(this) ==
    IF this.currentLayout = LAYOUT_TWO_ROW
    THEN /\ this._label1 # Null /\ this._label1.text = PLACEHOLDER_ROW1
         /\ this._label2 # Null /\ this._label2.text = PLACEHOLDER_ROW2
    ELSE this._label1 # Null /\ this._label1.text = PLACEHOLDER_SINGLE

\* C14, amended: an update that fails (getStats returns null because the dmon
\* command or the parsing of its output failed, or _update threw) renders
\* placeholder dashes: from a failed update to the next successful one, across timer ticks, layout changes and style
\* changes, the labels show the placeholder text of the layout ("GPU: --", or
\* "GPU: -- MEM: --" and "TEMP: -- FAN: --") and no values of an earlier
\* reading.  Checked under Spec.
C14_PlaceholdersWhileFailing == last.run > 0 => Placeholders(applet)

\* C14 as stated: an update in which the execution of a command or parsing
\* fails renders placeholder dashes, and they stay until the next successful
\* update.  Checked under Spec; an exception of the fan query is such a failure.
C14_PlaceholdersOnAnyFailure ==
    (last.run > 0 \/ last.raised # {}) => Placeholders(applet)

\* C14 witness: a second failure in a row, at a timer tick, after a reading
\* had been on display (its colour is still on the label)
C14_Witness ==
    /\ last.call = "timerCallback" /\ last.update = "failed" /\ last.run = 2
    /\ applet._label1.color # ""
    /\ Placeholders(applet)

\* C15: repeated error logging is suppressed: in a run of consecutive failed
\* updates an error is written to the log for the first failure and for
\* every 10th, and none for any other failed update of the run.  Checked
\* under SpecTimer.  (NvidiaSMI writes its own error at every failure.)
C15_LogSuppressed ==
    (last.update # "none" /\ last.update # "ok")
        => IF last.run = 1 \/ last.run % 10 = 0
           THEN last.logged # <<>>
           ELSE last.logged = <<>>

\* the state _handleError leaves after the first failure of a run
HandledAsFailure(this) ==
    /\ this._consecutiveErrors = 1
    /\ Placeholders(this)
    /\ this.tooltip.kind = "error"

TimerLive == applet._timerId # Null /\ OwnTimer(applet) \in mainloop.sources

\* C16: an unexpected exception is caught and treated as a failure: an
\* exception raised while executing a command makes getStats return null,
\* and an exception raised inside _update (display or tooltip rendering) is
\* handled by _handleError as a null reading is, and does not reach the timer
\* callback, which returns true (its source stays live).  Checked under Spec.
C16_ExceptionsAsFailure ==
    /\ last.raised # {} => last.update = "failed"
    /\ last.update = "threw" => HandledAsFailure(applet)
    /\ (last.call = "timerCallback" /\ last.update = "threw") => TimerLive

\* C16, amended: an exception raised while executing the dmon command makes
\* getStats return null; one raised while executing the fan query makes the
\* fan value 0 in a reading that is still returned; an exception raised in the
\* try block of _update is handled by _handleError as a null reading is, and
\* the timer callback returns true (its source stays live).
C16_ExceptionsCaught ==
    /\ "dmon" \in last.raised => last.update = "failed"
    /\ "fan" \in last.raised
         => /\ last.update # "failed"
            /\ last.update = "ok"
                 => applet.tooltip.kind = "stats" /\ applet.tooltip.stats.fan = 0
    /\ last.update = "threw" => HandledAsFailure(applet)
    /\ (last.call = "timerCallback" /\ last.update = "threw") => TimerLive

\* C16 witness: at a timer tick in the two-row layout the update threw, the
\* labels show the placeholders and the timer is live
C16_Witness ==
    /\ last.call = "timerCallback" /\ last.update = "threw"
    /\ applet.currentLayout = LAYOUT_TWO_ROW
    /\ HandledAsFailure(applet) /\ TimerLive

\* C20: in the two-row layout the temperature colour applies to both rows:
\* after a successful update with colour coding enabled, label 1 and label 2
\* carry the same colour, getTemperatureColor of the reading's temperature.
\* Checked under Spec.
C20_BothRowsColored ==
    (last.update = "ok" /\ applet.enableColorCoding
        /\ applet.currentLayout = LAYOUT_TWO_ROW)
        => /\ applet._label1.color = applet._label2.color
           /\ applet._label1.color = getTemperatureColor(applet, applet.tooltip.stats.temp)

\* C20 witness: a reading at the critical threshold is on display in two rows
C20_Witness ==
    /\ last.update = "ok" /\ applet.enableColorCoding
    /\ applet.currentLayout = LAYOUT_TWO_ROW
    /\ applet.tooltip.stats.temp = TEMP_CRITICAL_DEFAULT
    /\ applet._label1.color = COLOR_CRITICAL_DEFAULT
    /\ applet._label2.color = COLOR_CRITICAL_DEFAULT

(***************************************************************************)
(* Properties of LayoutManager.format, checked under SpecFormat.           *)
(***************************************************************************)
RECURSIVE TotalLen(_)
TotalLen(words) == IF words = <<>> THEN 0 ELSE Len(Head(words)) + TotalLen(Tail(words))

\* text is these words with one blank between two words and none around
SingleSpaced(text, words) ==
    /\ SplitWhiteSpace(text) = words
    /\ Len(text) = TotalLen(words) + Len(words) - 1
    /\ \A i \in 1..Len(text) : text[i] \in WhiteSpace => text[i] = " "

\* word is the decimal digits of value followed by unit, and reads back as value
ValueWord(word, value, unit) ==
    /\ ParseInt(word) = Num(value)
    /\ word = IntToStr(value) \o unit

\* the four words of a single-spaced text of four words: a set of one
\* sequence, or the empty set
Seq4Words(text) ==
    {w \in {SplitWhiteSpace(text)} : Len(w) = 4 /\ SingleSpaced(text, w)}

PERCENT == <<"%">>
DEGREES == <<"°", "C">>
BAR == <<"|">>
GPU_LABEL == <<"G", "P", "U", ":">>
MEM_LABEL == <<"M", "E", "M", ":">>
TEMP_LABEL == <<"T", "E", "M", "P", ":">>
FAN_LABEL == <<"F", "A", "N", ":">>

LEFT_COLUMN_WIDTH == 11

\* the index of the first c in s
FirstIndexOf(s, c) ==
    CHOOSE i \in 1..Len(s) : s[i] = c /\ \A j \in 1..(i - 1) : s[j] # c

\* C19: in the two-row layout the columns are fixed-width: the left column
\* (GPU / TEMP) is 11 characters wide, so MEM in row 1 and FAN in row 2 start
\* after it, at the same position for every reading, whatever the number of
\* digits of its values.
C19_FixedWidthColumns ==
    (formatResult # Pending /\ formatCase.requested = LAYOUT_TWO_ROW)
        => LET out == formatResult.value
           IN  /\ FirstIndexOf(out.row1, "M") > LEFT_COLUMN_WIDTH
               /\ FirstIndexOf(out.row2, "F") = FirstIndexOf(out.row1, "M")
               /\ \A c \in FormatCases :
                      LET other == format(LAYOUT_TWO_ROW, c.stats)
                      IN  /\ FirstIndexOf(other.row1, "M") = FirstIndexOf(out.row1, "M")
                          /\ FirstIndexOf(other.row2, "F") = FirstIndexOf(out.row2, "F")

(***************************************************************************)
(* Properties of NvidiaSMI.getStats, checked under SpecStats.              *)
(***************************************************************************)
\* the command did not run to a result that parses
RunFails(run, parse(_)) ==
    \/ run.throws
    \/ ~run.throws /\ (~run.ok \/ run.exit_code # 0 \/ parse(run.stdout) = Null)

DmonFails == RunFails(statsCase.dmon, _parseDmonOutput)
FanFails == RunFails(statsCase.fan, _parseFanSpeed)

\* the last word of the text
LastWord(text) == SplitWhiteSpace(text)[Len(SplitWhiteSpace(text))]

\* C23: getStats returns null if and only if the dmon execution or parse
\* fails; when dmon succeeds and the fan query fails to execute or to parse,
\* getStats returns the dmon values with fan 0, the update counts as a
\* success and the display shows "FAN: 0%", not the placeholder dashes.
C23_NullIffDmonFails ==
    statsResult # Pending =>
        /\ (statsResult.value = Null) <=> DmonFails
        /\ (~DmonFails /\ FanFails) =>
              /\ statsResult.value =
                    [gpu |-> _parseDmonOutput(statsCase.dmon.stdout).gpu,
                     mem |-> _parseDmonOutput(statsCase.dmon.stdout).mem,
                     temp |-> _parseDmonOutput(statsCase.dmon.stdout).temp,
                     fan |-> 0]
              /\ last.update = "ok" /\ applet._consecutiveErrors = 0
              /\ ~Placeholders(applet)
              /\ LastWord(applet._label1.text) = <<"0", "%">>
              /\ applet.tooltip.kind = "stats" /\ applet.tooltip.stats.fan = 0

\* C23 witness: dmon gave a reading, the fan query printed a text with no
\* number and the update went through
C23_Witness ==
    /\ statsResult # Pending
    /\ ~DmonFails /\ ~statsCase.fan.throws /\ statsCase.fan.stdout = <<"-", "a">>
    /\ statsResult.value # Null /\ statsResult.value.fan = 0

\* C29: every reading getStats returns, and so every reading shown in the
\* label or the tooltip, has a fan value that is an integer within 0..100,
\* whatever the two commands print.
C29_FanWithinRange ==
    (statsResult # Pending /\ statsResult.value # Null) =>
        /\ statsResult.value.fan \in 0..100
        /\ applet.tooltip.stats.fan \in 0..100
        /\ \E n \in 0..100 : LastWord(applet._label1.text) = IntToStr(n) \o <<"%">>

\* C29 witness: the fan query printed 150 and the reading was returned and shown
C29_Witness ==
    /\ statsResult # Pending /\ statsResult.value # Null
    /\ ~statsCase.fan.throws
    /\ statsCase.fan.stdout = IntToStr(MaxFanValue) \o <<"\n">>
    /\ applet.tooltip.kind = "stats"

(***************************************************************************)
(* Properties of the error counter, checked under Spec.                    *)
(***************************************************************************)
\* C24: _consecutiveErrors always equals the number of failed updates since
\* the last successful update (0 initially and right after a success),
\* counting every update that did not succeed, whatever triggered it: timer
\* tick, layout change, style change or panel addition.
C24_CountsFailedUpdates == applet._consecutiveErrors = last.run

(***************************************************************************)
(* Properties of the context menu, the settings and the widgets, checked   *)
(* under SpecMenu.                                                         *)
(***************************************************************************)
MenuSetUp(this) ==
    this._singleRowItem # Null /\ this._twoRowItem # Null /\ this._refreshItems # Null

\* the dots mark the current layout and the current refresh interval
DotsMatch(this) ==
    /\ this._singleRowItem.dot <=> this.currentLayout = LAYOUT_SINGLE_ROW
    /\ this._twoRowItem.dot <=> this.currentLayout = LAYOUT_TWO_ROW
    /\ this._singleRowItem.dot # this._twoRowItem.dot
    /\ \A interval \in this._refreshItems.keys :
          interval \in this._refreshItems.dots <=> interval = this.refreshInterval

\* C21: current selections are marked with a dot: once the context menu has
\* been set up, after any sequence of menu selections and settings-driven
\* changes, exactly one of the two layout items shows the dot, the item of the
\* layout manager's current layout, and a refresh-interval item shows the dot
\* if and only if its interval is the current refreshInterval.
C21_DotsMarkSelections == MenuSetUp(applet) => DotsMatch(applet)

LayoutSelected == last.call = "_onMenuLayoutChanged"
RefreshSelected == last.call = "_onMenuRefreshChanged"

TimerActive == applet._timerId # Null \/ mainloop.sources # {}

\* C25: a repeating timer is active only while the applet is on the panel: in
\* every reachable state an active timer implies that
\* on_applet_added_to_panel has run with no later
\* on_applet_removed_from_panel; a change of the refresh interval made while
\* no timer is running, through the settings binding or through the context
\* menu, starts no timer.
C25_TimerOnlyOnPanel == TimerActive => last.onPanel

\* the widgets are those of the current layout, in one box on the actor
WidgetsMatch(this) ==
    /\ this._label1 # Null
    /\ this._label2 # Null <=> this.currentLayout = LAYOUT_TWO_ROW
    /\ this._mainBox # Null
    /\ this._mainBox.vertical <=> this.currentLayout = LAYOUT_TWO_ROW
    /\ this.actor.boxes = 1

\* C26: the widgets always match the layout: after _init and after every
\* layout or style change handler, _label1 exists, _label2 exists if and only
\* if the current layout is two-row, and at most one main box is attached to
\* the actor, the previous one being destroyed before a new one is created.
C26_WidgetsMatchLayout == WidgetsMatch(applet)

\* C26 witness: a menu selection took the applet back from two rows to one
\* row, after a styling setting had changed
C26_Witness ==
    /\ LayoutSelected /\ last.selected.value = LAYOUT_SINGLE_ROW
    /\ ~applet.enableColorCoding
    /\ applet.settings # Null /\ applet.settings.layout = LAYOUT_TWO_ROW
    /\ WidgetsMatch(applet)

LayoutHandlers == {"_onLayoutChanged", "_onMenuLayoutChanged"}

\* C27 as stated: the current layout is always one of 'single-row' and
\* 'two-row', setLayout with another value leaves it unchanged, and after
\* every layout change handler layoutMode equals the current layout.
C27_LayoutModeIsCurrent ==
    /\ applet.currentLayout \in LayoutValues
    /\ \A other \in MenuLayoutValues \ LayoutValues :
          setLayout(applet.currentLayout, other) = applet.currentLayout
    /\ last.call \in LayoutHandlers => applet.layoutMode = applet.currentLayout

\* C27, amended: the current layout is always one of 'single-row' and
\* 'two-row'; setLayout with another value leaves it unchanged; after a
\* layout change handler layoutMode equals the current layout when layoutMode
\* is one of the two layouts, and a handler that finds another value in
\* layoutMode keeps the current layout it had.
C27_LayoutAlwaysValid ==
    /\ [](/\ applet.currentLayout \in LayoutValues
          /\ \A other \in MenuLayoutValues \ LayoutValues :
                setLayout(applet.currentLayout, other) = applet.currentLayout
          /\ (last.call \in LayoutHandlers /\ applet.layoutMode \in LayoutValues)
                => applet.layoutMode = applet.currentLayout)
    /\ [][(last'.call \in LayoutHandlers /\ applet'.layoutMode \notin LayoutValues)
            => applet'.currentLayout = applet.currentLayout]_vars

\* C27 witness: the settings gave a value that is no layout while the applet
\* showed two rows, and the two rows stayed
C27_Witness ==
    /\ last.call = "_onLayoutChanged"
    /\ applet.layoutMode \notin LayoutValues
    /\ applet.currentLayout = LAYOUT_TWO_ROW
    /\ WidgetsMatch(applet)

\* C28: a failure to save a selection of the context menu never leaves the
\* applet inconsistent: when settings.setValue throws during a layout
\* selection or a refresh-interval selection, the change has taken effect in
\* memory (layout and widgets, respectively refreshInterval and the restarted
\* timer) and the dots of the menu match it.
C28_SaveFailureConsistent ==
    /\ (LayoutSelected /\ last.save = SAVE_THROWS)
          => /\ applet.layoutMode = last.selected.value
             /\ applet.currentLayout = last.selected.value
             /\ WidgetsMatch(applet)
             /\ DotsMatch(applet)
    /\ (RefreshSelected /\ last.save = SAVE_THROWS)
          => /\ applet.refreshInterval = last.selected.value
             /\ applet._timerId # Null /\ mainloop.sources = {OwnTimer(applet)}
             /\ DotsMatch(applet)

\* the display shows what the update of the last handler got: the reading, or
\* the placeholders when it got none
ShowsLastUpdate ==
    IF last.update = "ok"
    THEN /\ Shows(applet, last.reading)
         /\ applet.tooltip = [kind |-> "stats", stats |-> last.reading,
                               refresh |-> applet.refreshInterval]
    ELSE Placeholders(applet)

\* one update ran: getStats was called once
OneUpdate == last.update # "none" /\ NoRepeat(last.commands) /\ Head(last.commands) = "dmon"

\* C30: on_applet_added_to_panel performs exactly one update at once and
\* starts the timer, and a layout change, from the menu or from the settings,
\* recreates the widgets and performs one update at once; in both cases the
\* display shows a fresh reading, or the placeholder on failure, without
\* waiting for a timer tick, and the layout change leaves the running timer
\* untouched.
C30_ImmediateUpdate ==
    /\ [](last.call = "on_applet_added_to_panel"
            => /\ OneUpdate /\ ShowsLastUpdate
               /\ applet._timerId # Null /\ mainloop.sources = {OwnTimer(applet)})
    /\ [](last.call \in LayoutHandlers
            => OneUpdate /\ ShowsLastUpdate /\ WidgetsMatch(applet))
    /\ [][last'.call \in LayoutHandlers
            => applet'._timerId = applet._timerId /\ mainloop' = mainloop]_vars

\* C30 witness: the settings changed the layout to two rows while the timer
\* ran, and the two rows show a reading other than the one shown before
C30_Witness ==
    /\ last.call = "_onLayoutChanged" /\ last.update = "ok"
    /\ applet.currentLayout = LAYOUT_TWO_ROW
    /\ applet._timerId # Null /\ mainloop.sources = {OwnTimer(applet)}
    /\ last.reading.temp = TEMP_WARNING_DEFAULT - 1
    /\ Shows(applet, last.reading)

=============================================================================
